---- MODULE Spec2Model ----
(***************************************************************************)
(* Model of pylops/utils/backend.py: the backend-selection functions       *)
(* get_module, get_module_name, get_array_module, get_convolve,            *)
(* get_fftconvolve, get_oaconvolve and to_cupy_conditional.                *)
(*                                                                         *)
(* The two capability flags deps.cupy_enabled and deps.cusignal_enabled    *)
(* are fixed at import time.  The module-level name cp is bound only when  *)
(* deps.cupy_enabled holds (lines 5-6); evaluating the name cp when it is  *)
(* unbound raises Python's NameError.                                      *)
(*                                                                         *)
(* Arrays live in a heap indexed by identity; each has a residency (loc)   *)
(* and a content (data).  Every call is one atomic step that records the   *)
(* call and its outcome in the variable last.                              *)
(***************************************************************************)
EXTENDS Integers, Sequences, FiniteSets, TLC

VARIABLES cupy_enabled, cusignal_enabled, heap, seen, last

vars == <<cupy_enabled, cusignal_enabled, heap, seen, last>>

\* ------------------------------------------------------------------ bounds
\* largest number of arrays that ever exist
MaxArrays == 4
\* number of arrays that exist before the first call
InitArrays == 2

\* ------------------------------------------------------------ value spaces
\* contents an array can hold
Data == {0, 1}
\* an array: where it resides and what it holds
ArrayVal == [loc : {"cpu", "gpu"}, data : Data]

\* backend strings a caller passes to get_module
BackendNames == {"numpy", "cupy", "tpu", ""}
\* the names the docstrings call valid
ValidNames == {"numpy", "cupy"}

\* module handles: numpy (np), cupy (cp), and some unrelated module object
np == "np"
cp == "cp"
OtherModule == "scipy"
\* handles a caller can hold: cupy cannot be imported when it is disabled
ModuleArgs == {np, OtherModule} \cup (IF cupy_enabled THEN {cp} ELSE {})

\* the callables imported on line 2 and the cusignal ones of lines 107, 133
convolve == "scipy.signal.convolve"
fftconvolve == "scipy.signal.fftconvolve"
oaconvolve == "scipy.signal.oaconvolve"
cusignal_convolve == "cusignal.convolution.convolve"
cusignal_fftconvolve == "cusignal.convolution.fftconvolve"

\* outcomes of a call
Ret(v) == [kind |-> "ret", val |-> v]
Raise(e) == [kind |-> "raise", val |-> e]

\* -------------------------------------------------------- library helpers
\* cupy.get_array_module(x): cupy for a cupy array, numpy for anything else
cp_get_array_module(x) == IF x.loc = "gpu" THEN cp ELSE np

\* cupy.asarray(y): a new GPU-resident array with the contents of y
cp_asarray(y) == [loc |-> "gpu", data |-> y.data]

\* ------------------------------------------------------- the pure functions
\* get_module, with the second branch returning numpy as well
get_module_default_numpy(backend) ==
    IF backend = "numpy" THEN Ret(np)
    ELSE IF backend = "cupy"
         THEN (IF cupy_enabled THEN Ret(cp) ELSE Raise("NameError"))
         ELSE Ret(np)

\* get_module(backend), lines 33-39
get_module(backend) ==
    IF backend = "numpy" THEN Ret(np)
    ELSE IF backend = "cupy"
         THEN (IF cupy_enabled THEN Ret(cp) ELSE Raise("NameError"))
         ELSE Raise("ValueError")

\* get_module_name, with the cupy branch returning the wrong string
get_module_name_swapped(mod) ==
    IF mod = np THEN Ret("numpy")
    ELSE IF ~cupy_enabled THEN Raise("NameError")
    ELSE IF mod = cp THEN Ret("numpy")
    ELSE Raise("ValueError")

\* get_module_name(mod), lines 57-63: the comparison mod == cp on line 59
\* evaluates the name cp, which is unbound when cupy is disabled
get_module_name(mod) ==
    IF mod = np THEN Ret("numpy")
    ELSE IF ~cupy_enabled THEN Raise("NameError")
    ELSE IF mod = cp THEN Ret("cupy")
    ELSE Raise("ValueError")

\* get_array_module, inspecting x even when cupy is disabled
get_array_module_always_inspect(x) == Ret(cp_get_array_module(x))

\* get_array_module(x), lines 80-83
get_array_module(x) ==
    IF cupy_enabled THEN Ret(cp_get_array_module(x)) ELSE Ret(np)

\* get_convolve, falling back to the CPU routine when cusignal is missing
get_convolve_cpu_fallback(x) ==
    IF ~cupy_enabled THEN Ret(convolve)
    ELSE IF cp_get_array_module(x) = np THEN Ret(convolve)
    ELSE IF cusignal_enabled THEN Ret(cusignal_convolve)
    ELSE Ret(convolve)

\* get_convolve(x), lines 100-109
get_convolve(x) ==
    IF ~cupy_enabled THEN Ret(convolve)
    ELSE IF cp_get_array_module(x) = np THEN Ret(convolve)
    ELSE IF cusignal_enabled THEN Ret(cusignal_convolve)
    ELSE Raise("ModuleNotFoundError")

\* get_fftconvolve, dispatching on the cusignal flag before the cupy flag
get_fftconvolve_cusignal_first(x) ==
    IF cusignal_enabled /\ x.loc = "gpu" THEN Ret(cusignal_fftconvolve)
    ELSE IF ~cupy_enabled THEN Ret(fftconvolve)
    ELSE IF cp_get_array_module(x) = np THEN Ret(fftconvolve)
    ELSE Raise("ModuleNotFoundError")

\* get_fftconvolve(x), lines 126-135
get_fftconvolve(x) ==
    IF ~cupy_enabled THEN Ret(fftconvolve)
    ELSE IF cp_get_array_module(x) = np THEN Ret(fftconvolve)
    ELSE IF cusignal_enabled THEN Ret(cusignal_fftconvolve)
    ELSE Raise("ModuleNotFoundError")

\* get_oaconvolve, dispatching to a cusignal routine like its two siblings
get_oaconvolve_like_siblings(x) ==
    IF ~cupy_enabled THEN Ret(oaconvolve)
    ELSE IF cp_get_array_module(x) = np THEN Ret(oaconvolve)
    ELSE IF cusignal_enabled THEN Ret("cusignal.convolution.oaconvolve")
    ELSE Raise("ModuleNotFoundError")

\* get_oaconvolve(x), lines 152-160
get_oaconvolve(x) ==
    IF ~cupy_enabled THEN Ret(oaconvolve)
    ELSE IF cp_get_array_module(x) = np THEN Ret(oaconvolve)
    ELSE Raise("NotImplementedError")

\* to_cupy_conditional, converting whenever x is on the GPU
to_cupy_converts_any_y(x, y) == cupy_enabled /\ cp_get_array_module(x) = cp

\* the condition of lines 179-180 under which y is converted
to_cupy_converts(x, y) ==
    /\ cupy_enabled
    /\ cp_get_array_module(x) = cp
    /\ cp_get_array_module(y) = np

\* ------------------------------------------------------------------ state
\* the record of a call: which function, its arguments, and its outcome
\*   name : backend string argument      mod  : module handle argument
\*   x, y : identities of array arguments (0 when absent)
\*   from : for get_module_name applied to the result of the preceding
\*          get_module call, the backend string that call was given
\*   rep  : for get_array_module, whether x was already resolved before
\*   arr  : identity of a returned array (0 when absent)
Call(op, name, mod, x, y, from, rep, res, arr) ==
    [op |-> op, name |-> name, mod |-> mod, x |-> x, y |-> y,
     from |-> from, rep |-> rep, kind |-> res.kind, val |-> res.val,
     arr |-> arr]

Init ==
    /\ cupy_enabled \in BOOLEAN
    /\ cusignal_enabled \in BOOLEAN
    /\ heap \in [1..InitArrays -> ArrayVal]
    /\ seen = [i \in 1..InitArrays |-> "none"]
    /\ last = Call("init", "-", "-", 0, 0, "-", FALSE,
                   [kind |-> "none", val |-> "-"], 0)

flags_unchanged == UNCHANGED <<cupy_enabled, cusignal_enabled>>

\* ---------------------------------------------------------------- actions
\* a call get_module(backend)
Call_get_module ==
    \E backend \in BackendNames :
        /\ last' = Call("get_module", backend, "-", 0, 0, "-", FALSE,
                        get_module(backend), 0)
        /\ UNCHANGED <<heap, seen>>
        /\ flags_unchanged

\* a call get_module_name(mod) on a handle the caller holds
Call_get_module_name ==
    \E mod \in ModuleArgs :
        /\ last' = Call("get_module_name", "-", mod, 0, 0, "-", FALSE,
                        get_module_name(mod), 0)
        /\ UNCHANGED <<heap, seen>>
        /\ flags_unchanged

\* the composition get_module_name(get_module(backend)): the second call,
\* applied to the handle the preceding get_module call returned
Call_get_module_name_of_result ==
    /\ last.op = "get_module"
    /\ last.kind = "ret"
    /\ last' = Call("get_module_name", "-", last.val, 0, 0, last.name, FALSE,
                    get_module_name(last.val), 0)
    /\ UNCHANGED <<heap, seen>>
    /\ flags_unchanged

\* a call get_array_module(x)
Call_get_array_module ==
    \E i \in DOMAIN heap :
        /\ last' = Call("get_array_module", "-", "-", i, 0, "-",
                        seen[i] # "none", get_array_module(heap[i]), 0)
        /\ seen' = [seen EXCEPT ![i] = get_array_module(heap[i]).val]
        /\ UNCHANGED heap
        /\ flags_unchanged

\* a call get_convolve(x)
Call_get_convolve ==
    \E i \in DOMAIN heap :
        /\ last' = Call("get_convolve", "-", "-", i, 0, "-", FALSE,
                        get_convolve(heap[i]), 0)
        /\ UNCHANGED <<heap, seen>>
        /\ flags_unchanged

\* a call get_fftconvolve(x)
Call_get_fftconvolve ==
    \E i \in DOMAIN heap :
        /\ last' = Call("get_fftconvolve", "-", "-", i, 0, "-", FALSE,
                        get_fftconvolve(heap[i]), 0)
        /\ UNCHANGED <<heap, seen>>
        /\ flags_unchanged

\* a call get_oaconvolve(x)
Call_get_oaconvolve ==
    \E i \in DOMAIN heap :
        /\ last' = Call("get_oaconvolve", "-", "-", i, 0, "-", FALSE,
                        get_oaconvolve(heap[i]), 0)
        /\ UNCHANGED <<heap, seen>>
        /\ flags_unchanged

\* to_cupy_conditional, switching cupy off after the first conversion
Call_to_cupy_conditional_disables ==
    \E i \in DOMAIN heap, j \in DOMAIN heap :
        IF to_cupy_converts(heap[i], heap[j])
        THEN /\ Len(heap) < MaxArrays
             /\ heap' = Append(heap, cp_asarray(heap[j]))
             /\ seen' = Append(seen, "none")
             /\ last' = Call("to_cupy_conditional", "-", "-", i, j, "-",
                             FALSE, Ret("array"), Len(heap) + 1)
             /\ cupy_enabled' = FALSE
             /\ UNCHANGED cusignal_enabled
        ELSE /\ last' = Call("to_cupy_conditional", "-", "-", i, j, "-",
                             FALSE, Ret("array"), j)
             /\ UNCHANGED <<heap, seen>>
             /\ flags_unchanged

\* a call to_cupy_conditional(x, y), lines 179-182: either a new GPU array
\* is allocated and returned, or y itself is returned
Call_to_cupy_conditional ==
    \E i \in DOMAIN heap, j \in DOMAIN heap :
        IF to_cupy_converts(heap[i], heap[j])
        THEN /\ Len(heap) < MaxArrays
             /\ heap' = Append(heap, cp_asarray(heap[j]))
             /\ seen' = Append(seen, "none")
             /\ last' = Call("to_cupy_conditional", "-", "-", i, j, "-",
                             FALSE, Ret("array"), Len(heap) + 1)
             /\ flags_unchanged
        ELSE /\ last' = Call("to_cupy_conditional", "-", "-", i, j, "-",
                             FALSE, Ret("array"), j)
             /\ UNCHANGED <<heap, seen>>
             /\ flags_unchanged

Next ==
    \/ Call_get_module
    \/ Call_get_module_name
    \/ Call_get_module_name_of_result
    \/ Call_get_array_module
    \/ Call_get_convolve
    \/ Call_get_fftconvolve
    \/ Call_get_oaconvolve
    \/ Call_to_cupy_conditional

Spec == Init /\ [][Next]_vars

TypeOK ==
    /\ cupy_enabled \in BOOLEAN
    /\ cusignal_enabled \in BOOLEAN
    /\ heap \in Seq(ArrayVal)
    /\ Len(heap) \in InitArrays..MaxArrays
    /\ Len(seen) = Len(heap)
    /\ \A i \in DOMAIN seen : seen[i] \in {"none", np, cp}

\* ------------------------------------------------------ claim vocabulary
ConvOps == {"get_convolve", "get_fftconvolve", "get_oaconvolve"}
CPUImpls == {convolve, fftconvolve, oaconvolve}
GPUImpls == {cusignal_convolve, cusignal_fftconvolve}
\* the CPU implementation of the variant an operation asks for
CPUImplOf(op) ==
    IF op = "get_convolve" THEN convolve
    ELSE IF op = "get_fftconvolve" THEN fftconvolve
    ELSE oaconvolve
\* the GPU implementation of the variant an operation asks for, if any
GPUImplOf(op) ==
    IF op = "get_convolve" THEN cusignal_convolve
    ELSE IF op = "get_fftconvolve" THEN cusignal_fftconvolve
    ELSE "none"
SpecErrorKinds == {"ValueError", "ModuleNotFoundError", "NotImplementedError"}
\* the last call was a convolution lookup on a GPU-resident x
ConvOnGpu == last.op \in ConvOps /\ heap[last.x].loc = "gpu"

\* ------------------------------------------------------------------- C1
\* C1 (as stated): for every valid backend name n, in every capability
\* configuration, get_module(n) returns a handle and get_module_name of
\* that handle returns n.
C1_RoundTripAllValidNames ==
    /\ (last.op = "get_module" /\ last.name \in ValidNames)
          => last.kind = "ret"
    /\ (last.op = "get_module_name" /\ last.from \in ValidNames)
          => (last.kind = "ret" /\ last.val = last.from)

\* C1 (amended): for n = "numpy" in every configuration, and for n = "cupy"
\* when cupy is enabled, get_module(n) returns a handle and get_module_name
\* of that handle returns n.
C1_RoundTripWhenImportable ==
    /\ (last.op = "get_module" /\ last.name \in ValidNames
            /\ (last.name = "numpy" \/ cupy_enabled))
          => last.kind = "ret"
    /\ (last.op = "get_module_name" /\ last.from \in ValidNames)
          => (last.kind = "ret" /\ last.val = last.from)

C1_Witness ==
    /\ last.op = "get_module_name"
    /\ last.from = "cupy"
    /\ last.mod = cp
    /\ last.kind = "ret"
    /\ last.val = "cupy"

\* ------------------------------------------------------------------- C2
\* C2: every failure of every operation, in every capability
\* configuration, is a ValueError, a ModuleNotFoundError or a
\* NotImplementedError.
C2_OnlyThreeErrorKinds ==
    last.kind = "raise" => last.val \in SpecErrorKinds

\* ------------------------------------------------------------------- C3
\* C3: get_module_name(mod) raises ValueError whenever mod is neither numpy
\* nor cupy, whether or not cupy is enabled.
C3_UnknownModuleIsValueError ==
    (last.op = "get_module_name" /\ last.mod \notin {np, cp})
        => (last.kind = "raise" /\ last.val = "ValueError")

\* ------------------------------------------------------------------- C4
\* C4: get_module(name) raises ValueError, and returns no handle, for every
\* name outside {"numpy", "cupy"}, in every capability configuration.
C4_UnknownNameIsValueError ==
    (last.op = "get_module" /\ last.name \notin ValidNames)
        => (last.kind = "raise" /\ last.val = "ValueError")

C4_Witness ==
    /\ last.op = "get_module"
    /\ last.name = "tpu"
    /\ ~cupy_enabled
    /\ last.kind = "raise"

\* ------------------------------------------------------------------- C5
\* C5: with cupy enabled and x GPU-resident, get_convolve and
\* get_fftconvolve raise ModuleNotFoundError when cusignal is disabled,
\* get_oaconvolve raises NotImplementedError whatever the cusignal flag,
\* and none of the three returns a CPU implementation.
C5_GpuPathFailures ==
    (cupy_enabled /\ ConvOnGpu) =>
        /\ (last.op \in {"get_convolve", "get_fftconvolve"}
                /\ ~cusignal_enabled)
              => (last.kind = "raise" /\ last.val = "ModuleNotFoundError")
        /\ last.op = "get_oaconvolve"
              => (last.kind = "raise" /\ last.val = "NotImplementedError")
        /\ last.val \notin CPUImpls

C5_Witness ==
    /\ cupy_enabled
    /\ ~cusignal_enabled
    /\ ConvOnGpu
    /\ last.op = "get_convolve"
    /\ last.kind = "raise"

\* ------------------------------------------------------------------- C6
\* C6: with cupy disabled, each of the three convolution lookups returns
\* the CPU implementation of its variant, for every x and either value of
\* the cusignal flag.
C6_CpuOnlyConvolution ==
    (~cupy_enabled /\ last.op \in ConvOps)
        => (last.kind = "ret" /\ last.val = CPUImplOf(last.op))

C6_Witness ==
    /\ ~cupy_enabled
    /\ cusignal_enabled
    /\ ConvOnGpu
    /\ last.op = "get_fftconvolve"
    /\ last.val = fftconvolve

\* ------------------------------------------------------------------- C7
\* C7: to_cupy_conditional(x, y) never raises; it returns a new
\* GPU-resident array with the contents of y exactly when cupy is enabled,
\* x is GPU-resident and y is CPU-resident, and otherwise returns y itself;
\* no existing array is changed.
C7_Outcome ==
    last.op = "to_cupy_conditional" =>
        /\ last.kind = "ret"
        /\ last.arr \in DOMAIN heap
        /\ IF cupy_enabled /\ heap[last.x].loc = "gpu"
                /\ heap[last.y].loc = "cpu"
           THEN /\ last.arr # last.y
                /\ heap[last.arr].loc = "gpu"
                /\ heap[last.arr].data = heap[last.y].data
           ELSE last.arr = last.y

C7_ConditionalConversion ==
    /\ []C7_Outcome
    /\ [][\A i \in DOMAIN heap :
             /\ i \in DOMAIN heap'
             /\ heap'[i] = heap[i]
             /\ (last'.op = "to_cupy_conditional" /\ last'.arr # last'.y)
                    => last'.arr \notin DOMAIN heap]_vars

C7_Witness ==
    /\ last.op = "to_cupy_conditional"
    /\ cupy_enabled
    /\ heap[last.x].loc = "gpu"
    /\ heap[last.y].loc = "cpu"
    /\ last.arr = Len(heap)
    /\ heap[last.arr] = [loc |-> "gpu", data |-> heap[last.y].data]

\* ------------------------------------------------------------------- C8
\* C8: with cupy disabled, get_array_module(x) returns numpy for every x,
\* GPU-shaped inputs included, and never raises.
C8_CpuOnlyArrayModule ==
    (~cupy_enabled /\ last.op = "get_array_module")
        => (last.kind = "ret" /\ last.val = np)

C8_Witness ==
    /\ ~cupy_enabled
    /\ last.op = "get_array_module"
    /\ heap[last.x].loc = "gpu"
    /\ last.val = np

\* ------------------------------------------------------------------- C9
\* C9: a callable returned by a convolution lookup is one of the five
\* implementations and of the requested variant; a GPU implementation is
\* returned only when cupy and cusignal are enabled and x is GPU-resident;
\* with cupy enabled and x CPU-resident the CPU implementation is returned
\* whatever the cusignal flag.
C9_ClosedSetOfCallables ==
    (last.op \in ConvOps /\ last.kind = "ret") =>
        /\ last.val \in CPUImpls \cup GPUImpls
        /\ last.val \in {CPUImplOf(last.op), GPUImplOf(last.op)}
        /\ last.val \in GPUImpls
              => (cupy_enabled /\ cusignal_enabled
                    /\ heap[last.x].loc = "gpu")
        /\ (cupy_enabled /\ heap[last.x].loc = "cpu")
              => last.val = CPUImplOf(last.op)

C9_Witness ==
    /\ last.op = "get_fftconvolve"
    /\ last.kind = "ret"
    /\ last.val = cusignal_fftconvolve
    /\ heap[last.x].loc = "gpu"

\* ------------------------------------------------------------------ C10
\* C10: no operation changes the two capability flags, and a call of
\* get_array_module on an array that was resolved before returns the handle
\* the earlier call returned, whatever calls were made in between.
C10_Idempotent ==
    [][/\ cupy_enabled' = cupy_enabled
       /\ cusignal_enabled' = cusignal_enabled
       /\ (last'.op = "get_array_module" /\ seen[last'.x] # "none")
             => (last'.kind = "ret" /\ last'.val = seen[last'.x])]_vars

C10_Witness ==
    /\ last.op = "get_array_module"
    /\ last.rep
    /\ cupy_enabled
    /\ heap[last.x].loc = "gpu"
    /\ last.val = cp
    /\ Len(heap) > InitArrays
====
